---- MODULE Spec2Model ----
(***************************************************************************)
(* Program Structure Tree (SESE regions) of klintqinami/sese-regions:      *)
(* a model of src/pst.py.  compute_pst is a pipeline; every stage of the   *)
(* pipeline is one action, and the post-order sweep of _cycle_equivalence  *)
(* is one action per node.                                                 *)
(*                                                                         *)
(* Conventions.  Node indices and edge ids are 0-based as in the code;     *)
(* Python lists indexed by node or edge are functions on 0..k-1, Python    *)
(* lists that are iterated (orders, adjacency) are sequences.  Python's    *)
(* None is the value None; the code's own -1 sentinels are kept.           *)
(***************************************************************************)
EXTENDS Integers, Sequences, FiniteSets, TLC

\* ------------------------------------------------------------------ bounds
\* Spec: largest number of keys of the input adjacency.
MaxNodes == 3
\* Spec: largest number of entries of the `out` lists of the input, each an
\* edge; the `in` lists of Spec's inputs are empty.
MaxEntries == 3
\* SpecWide: largest number of keys, of entries of the `out` and `in` lists
\* together, and of `in` entries among them.
WideNodes == 4
WideEntries == 3
WideIn == 1

\* Python's None (no class id, no size, no list node, no region edge): a value
\* apart from every integer the code stores (ids, sizes, classes, and -1).
None == -2

\* Labels of the input nodes, in the insertion order of the adjacency's keys.
NodeNames == <<"n1", "n2", "n3", "n4", "n5", "n6", "n7", "n8">>

VARIABLES
  pc,              \* position in compute_pst
  adj,             \* the input: sequence of [key, out, in], in key order
  nodes_order,     \* labels in first-seen order; node index i is nodes_order[i+1]
  super_entry,     \* label of the super entry
  super_exit,      \* label of the super exit
  edges,           \* _Edge objects of the list `edges`, by id
  caps,            \* _Edge objects of kind capping (never in `edges`), by id
  edge_count,      \* _cycle_equivalence's edge_count (next capping id)
  directed_adj,    \* per node, sequence of outgoing non-back edge ids
  undirected_adj,  \* per node, sequence of <<edge id, other end>>
  dfsnum, parent, parent_edge, children,
  backedges_from, backedges_to, edge_upper, postorder,
  capping_to,      \* per node, sequence of capping edge ids ending there
  blists,          \* per node, its _BracketList [head, tail, size]
  list_node,       \* _Edge.list_node, by edge id (real and capping edges)
  bnode,           \* the _BracketNode objects: node -> [prev, next]
  hi,
  class_counter,
  sweep_pos,       \* number of nodes of postorder already swept
  edge_order,
  regions,         \* region id -> [id, entry_edge, exit_edge, parent, children]
  edge_node_index, dom, postdom,
  edges_out,       \* the published edge table
  dominators_call, \* a direct call of _dominators: its arguments and locals
  consumed         \* the bracket lists a merging _concat_blist took as `right`

vars == <<pc, adj, nodes_order, super_entry, super_exit, edges, caps, edge_count,
          directed_adj, undirected_adj, dfsnum, parent, parent_edge, children,
          backedges_from, backedges_to, edge_upper, postorder, capping_to, blists,
          list_node, bnode, hi, class_counter, sweep_pos, edge_order, regions,
          edge_node_index, dom, postdom, edges_out, dominators_call, consumed>>

\* ------------------------------------------------------------------ helpers
Range(s) == {s[i] : i \in 1..Len(s)}

\* A Python list indexed from 0, as a function on 0..Len(s)-1.
ZeroBased(s) == [i \in 0..(Len(s) - 1) |-> s[i + 1]]

\* Position of x in the sequence s of distinct elements, 0-based (dict lookup).
IndexOf(s, x) == (CHOOSE i \in 1..Len(s) : s[i] = x) - 1

RECURSIVE Concat(_)
\* Concatenation of a sequence of sequences.
Concat(ss) == IF ss = <<>> THEN <<>> ELSE Head(ss) \o Concat(Tail(ss))

\* ------------------------------------------------------------------ inputs
RECURSIVE SortedPairs(_, _)
\* The sequences of at most k pairs <<key index, node index>> over n nodes whose
\* key indices never decrease: the entries of the lists of an adjacency, read in
\* key order.
SortedPairs(n, k) ==
  IF k = 0 THEN {<<>>}
  ELSE LET S == SortedPairs(n, k - 1)
           full == {t \in S : Len(t) = k - 1}
           ok(t, p) == Len(t) = 0 \/ t[Len(t)][1] <= p[1]
       IN  S \cup {Append(tp[1], tp[2]) :
                     tp \in {x \in full \X ((1..n) \X (1..n)) : ok(x[1], x[2])}}

\* The list of key index u in the entries ps.
ListOf(ps, u) ==
  LET mine == SelectSeq(ps, LAMBDA p : p[1] = u)
  IN  [i \in 1..Len(mine) |-> NodeNames[mine[i][2]]]

\* The adjacency with n keys whose out lists hold outs and in lists hold ins.
MakeAdj(n, outs, ins) ==
  [u \in 1..n |-> [key |-> NodeNames[u], out |-> ListOf(outs, u), in |-> ListOf(ins, u)]]

\* The input adjacencies of at most nodes keys, entries list entries, ins of them
\* `in` entries: every node is a key (a node that is no key behaves as a key
\* with empty lists added last), keys in insertion order, any lists.
Inputs(nodes, entries, ins) ==
  UNION {{MakeAdj(n, io[1], io[2]) :
            io \in {x \in SortedPairs(n, entries) \X SortedPairs(n, ins) :
                      Len(x[1]) + Len(x[2]) <= entries}} :
         n \in 0..nodes}

\* ------------------------------------------------------------------ augmentor
RECURSIVE add_nodes(_, _)
\* add_node over a sequence of mentions: first-seen order, no repeats.
add_nodes(order, mentions) ==
  IF mentions = <<>> THEN order
  ELSE add_nodes(IF Head(mentions) \in Range(order) THEN order
                 ELSE Append(order, Head(mentions)),
                 Tail(mentions))

\* The label f"{base}_{i}".
Suffixed(base, i) == <<base, i>>

\* _unique_label: base, or the first base_i that is not used.
unique_label(base, existing) ==
  IF base \notin existing THEN base
  ELSE Suffixed(base, CHOOSE i \in 1..(Cardinality(existing) + 1) :
                  /\ Suffixed(base, i) \notin existing
                  /\ \A j \in 1..(i - 1) : Suffixed(base, j) \in existing)

\* The nodes in first-seen order: per key, the key, its out list, its in list.
InputNodesOrder(a) ==
  add_nodes(<<>>, Concat([u \in 1..Len(a) |-> <<a[u].key>> \o a[u].out \o a[u].in]))

\* A slip of lines 368-370: a target already seen in the same out list adds
\* no edge.
OrigEdgesSpecNoRepeats(a) ==
  Concat([u \in 1..Len(a) |->
            LET firsts == SelectSeq([i \in 1..Len(a[u].out) |-> i],
                                    LAMBDA i : \A j \in 1..(i - 1) : a[u].out[j] # a[u].out[i])
            IN  [i \in 1..Len(firsts) |-> <<a[u].key, a[u].out[firsts[i]], "orig">>]])

\* edges_spec after the first loop: one orig edge per out entry, in key order.
OrigEdgesSpec(a) ==
  Concat([u \in 1..Len(a) |->
            [i \in 1..Len(a[u].out) |-> <<a[u].key, a[u].out[i], "orig">>]])

\* Number of entries of es whose component c is n (indeg: c = 2, outdeg: c = 1).
Degree(es, c, n) == Cardinality({i \in 1..Len(es) : es[i][c] = n})

\* A slip of lines 382-383: the fallback to every node is missing.
EntryNodesNoFallback(order, es) ==
  SelectSeq(order, LAMBDA n : Degree(es, 2, n) = 0)

\* entry_nodes: the nodes of indegree 0, or every node when there is none.
EntryNodes(order, es) ==
  LET zero == SelectSeq(order, LAMBDA n : Degree(es, 2, n) = 0)
  IN  IF zero = <<>> THEN order ELSE zero

\* exit_nodes: the nodes of outdegree 0, or every node when there is none.
ExitNodes(order, es) ==
  LET zero == SelectSeq(order, LAMBDA n : Degree(es, 1, n) = 0)
  IN  IF zero = <<>> THEN order ELSE zero

\* edges_spec in full: orig, super_entry, super_exit edges and the back edge.
EdgesSpec(a, se, sx) ==
  LET order == InputNodesOrder(a)
      es == OrigEdgesSpec(a)
      entry_nodes == EntryNodes(order, es)
      exit_nodes == ExitNodes(order, es)
  IN  es \o [i \in 1..Len(entry_nodes) |-> <<se, entry_nodes[i], "super_entry">>]
         \o [i \in 1..Len(exit_nodes) |-> <<exit_nodes[i], sx, "super_exit">>]
         \o << <<sx, se, "back">> >>

\* _Edge.__init__
NewEdge(edge_id, u, v, kind) ==
  [id |-> edge_id, u |-> u, v |-> v, kind |-> kind, class_id |-> None,
   recent_size |-> None, recent_class |-> None]

\* The list `edges`: one _Edge per entry of edges_spec, ids in order.
MakeEdges(order, es) ==
  [i \in 0..(Len(es) - 1) |->
     NewEdge(i, IndexOf(order, es[i + 1][1]), IndexOf(order, es[i + 1][2]), es[i + 1][3])]

\* directed_adj: per node the ids of its outgoing edges other than back.
MakeDirectedAdj(node_count, E) ==
  [n \in 0..(node_count - 1) |->
     LET m == Cardinality(DOMAIN E)
     IN  SelectSeq([i \in 1..m |-> i - 1],
                   LAMBDA e : E[e].u = n /\ E[e].kind # "back")]

\* undirected_adj: per node, for every edge in id order, (id, v) at u then
\* (id, u) at v; a self-loop is listed twice at its node.
MakeUndirectedAdj(node_count, E) ==
  [n \in 0..(node_count - 1) |->
     LET m == Cardinality(DOMAIN E)
     IN  Concat([i \in 1..m |->
                   (IF E[i - 1].u = n THEN << <<i - 1, E[i - 1].v>> >> ELSE <<>>)
                   \o (IF E[i - 1].v = n THEN << <<i - 1, E[i - 1].u>> >> ELSE <<>>)])]

\* ------------------------------------------------------------------ undirected DFS
\* The bookkeeping of _cycle_equivalence before any node is visited.
DfsInit(node_count, real_count) ==
  [time |-> 0,
   dfsnum |-> [n \in 0..(node_count - 1) |-> 0],
   parent |-> [n \in 0..(node_count - 1) |-> -1],
   parent_edge |-> [n \in 0..(node_count - 1) |-> -1],
   children |-> [n \in 0..(node_count - 1) |-> <<>>],
   backedges_from |-> [n \in 0..(node_count - 1) |-> <<>>],
   backedges_to |-> [n \in 0..(node_count - 1) |-> <<>>],
   edge_upper |-> [e \in 0..(real_count - 1) |-> -1],
   edge_seen |-> [e \in 0..(real_count - 1) |-> FALSE],
   postorder |-> <<>>]

RECURSIVE dfs_loop(_, _, _)
\* The while loop of dfs: stack holds <<node, number of entries of its
\* adjacency already taken by its iterator>>.
dfs_loop(st, stack, uadj) ==
  IF stack = <<>> THEN st
  ELSE
    LET top == stack[Len(stack)]
        node == top[1]
        pos == top[2]
        rest == SubSeq(stack, 1, Len(stack) - 1)
    IN  IF pos >= Len(uadj[node])
        THEN dfs_loop([st EXCEPT !.postorder = Append(@, node)], rest, uadj)
        ELSE
          LET edge_id == uadj[node][pos + 1][1]
              other == uadj[node][pos + 1][2]
              advanced == Append(rest, <<node, pos + 1>>)
          IN  IF st.edge_seen[edge_id] THEN dfs_loop(st, advanced, uadj)
              ELSE IF st.dfsnum[other] = 0
              THEN dfs_loop([st EXCEPT !.edge_seen[edge_id] = TRUE,
                                       !.parent[other] = node,
                                       !.parent_edge[other] = edge_id,
                                       !.children[node] = Append(@, other),
                                       !.time = @ + 1,
                                       !.dfsnum[other] = st.time + 1],
                            Append(advanced, <<other, 0>>), uadj)
              ELSE
                LET desc == IF st.dfsnum[other] < st.dfsnum[node] THEN node ELSE other
                    anc == IF st.dfsnum[other] < st.dfsnum[node] THEN other ELSE node
                IN  dfs_loop([st EXCEPT !.edge_seen[edge_id] = TRUE,
                                        !.backedges_from[desc] = Append(@, edge_id),
                                        !.backedges_to[anc] = Append(@, edge_id),
                                        !.edge_upper[edge_id] = anc],
                             advanced, uadj)

\* dfs(start)
dfs(st, start, uadj) ==
  dfs_loop([st EXCEPT !.time = @ + 1, !.dfsnum[start] = st.time + 1],
           << <<start, 0>> >>, uadj)

RECURSIVE dfs_restarts(_, _, _, _)
\* for n in range(node_count): if dfsnum[n] == 0: dfs(n)
dfs_restarts(st, n, node_count, uadj) ==
  IF n >= node_count THEN st
  ELSE dfs_restarts(IF st.dfsnum[n] = 0 THEN dfs(st, n, uadj) ELSE st,
                    n + 1, node_count, uadj)

\* The DFS phase of _cycle_equivalence: dfs(root), then the restarts.
undirected_dfs(node_count, real_count, uadj, root) ==
  dfs_restarts(dfs(DfsInit(node_count, real_count), root, uadj), 0, node_count, uadj)

\* ------------------------------------------------------------------ bracket lists
\* The function f with f[k] set to v (k added to its domain when new).
Put(f, k, v) == [x \in (DOMAIN f) \cup {k} |-> IF x = k THEN v ELSE f[x]]

\* _BracketList.__init__
EmptyList == [head |-> None, tail |-> None, size |-> 0]

\* The bracket-list operations act on a record B with fields list_node (the
\* handle of each edge), bnode (the nodes' prev and next) and bl (the list
\* `self`).  The node made by push(edge) is named by the edge's id: the sweep
\* pushes an edge at most once.

\* _BracketList.push
push(B, e) ==
  LET L == B.bl
      fresh == Put(B.bnode, e, [prev |-> L.tail, next |-> None])
  IN  [B EXCEPT !.list_node = Put(@, e, e),
                !.bnode = IF L.tail = None THEN fresh
                          ELSE [fresh EXCEPT ![L.tail].next = e],
                !.bl = [head |-> IF L.tail = None THEN e ELSE L.head,
                        tail |-> e,
                        size |-> L.size + 1]]

\* _BracketList.delete
delete(B, e) ==
  LET node == B.list_node[e]
  IN  IF node = None THEN B
      ELSE
        LET nd == B.bnode[node]
            L == B.bl
            bn1 == IF nd.prev = None THEN B.bnode
                   ELSE [B.bnode EXCEPT ![nd.prev].next = nd.next]
            bn2 == IF nd.next = None THEN bn1
                   ELSE [bn1 EXCEPT ![nd.next].prev = nd.prev]
        IN  [B EXCEPT !.list_node[e] = None,
                      !.bnode = [bn2 EXCEPT ![node] = [prev |-> None, next |-> None]],
                      !.bl = [head |-> IF nd.prev = None THEN nd.next ELSE L.head,
                              tail |-> IF nd.next = None THEN nd.prev ELSE L.tail,
                              size |-> L.size - 1]]

\* _BracketList.top: the edge of the tail node, or None.
top(B) == IF B.bl.tail # None THEN B.bl.tail ELSE None

\* A slip of line 118: the merged list keeps the size of `left`.
concat_blist_size_kept(B, left) ==
  LET right == B.bl
  IN  IF left.size = 0 THEN B
      ELSE IF right.size = 0 THEN [B EXCEPT !.bl = left]
      ELSE [B EXCEPT !.bnode = [@ EXCEPT ![left.tail].next = right.head,
                                         ![right.head].prev = left.tail],
                     !.bl = [head |-> left.head, tail |-> right.tail,
                             size |-> left.size]]

\* bl = _concat_blist(left, bl)
concat_blist(B, left) ==
  LET right == B.bl
  IN  IF left.size = 0 THEN B
      ELSE IF right.size = 0 THEN [B EXCEPT !.bl = left]
      ELSE [B EXCEPT !.bnode = [@ EXCEPT ![left.tail].next = right.head,
                                         ![right.head].prev = left.tail],
                     !.bl = [head |-> left.head, tail |-> right.tail,
                             size |-> left.size + right.size]]

\* ------------------------------------------------------------------ post-order sweep
\* The _Edge object with id e: of the list `edges`, or a capping edge.
Obj(sw, e) == IF e \in DOMAIN sw.edges THEN sw.edges[e] ELSE sw.caps[e]

\* The sweep state with the object of id e replaced by rec.
SetObj(sw, e, rec) ==
  IF e \in DOMAIN sw.edges THEN [sw EXCEPT !.edges[e] = rec]
  ELSE [sw EXCEPT !.caps[e] = rec]

\* node_by_dfsnum
NodeByDfsnum(node_count, dn) ==
  [d \in 0..node_count |->
     IF \E n \in 0..(node_count - 1) : dn[n] = d
     THEN CHOOSE n \in 0..(node_count - 1) :
            dn[n] = d /\ \A m \in (n + 1)..(node_count - 1) : dn[m] # d
     ELSE 0]

RECURSIVE Hi0(_, _, _)
\* hi0: the least dfsnum of the upper ends of the backedges leaving n.
Hi0(acc, es, D) ==
  IF es = <<>> THEN acc
  ELSE LET anc == D.edge_upper[Head(es)]
           lower == anc # -1 /\ D.dfsnum[anc] < acc
       IN  Hi0(IF lower THEN D.dfsnum[anc] ELSE acc, Tail(es), D)

RECURSIVE Hi12(_, _, _)
\* <<hi1, hi2>>: the least and second least hi over the children.
Hi12(acc, cs, hi_) ==
  IF cs = <<>> THEN acc
  ELSE LET val == hi_[Head(cs)]
       IN  Hi12(IF val < acc[1] THEN <<val, acc[1]>>
                ELSE IF val < acc[2] THEN <<acc[1], val>>
                ELSE acc,
                Tail(cs), hi_)

RECURSIVE ConcatChildren(_, _)
\* for c in children[n]: bl = _concat_blist(blists[c], bl)
ConcatChildren(sw, cs) ==
  IF cs = <<>> THEN sw
  ELSE ConcatChildren(concat_blist(sw, sw.blists[Head(cs)]), Tail(cs))

RECURSIVE DeleteCaps(_, _)
\* for cap in capping_to[n]: bl.delete(cap)
DeleteCaps(sw, cs) ==
  IF cs = <<>> THEN sw ELSE DeleteCaps(delete(sw, Head(cs)), Tail(cs))

\* A slip of lines 268-269: a deleted backedge is left without a class.
ClassifyBackedgeSkipped(sw, b) == sw

\* Lines 268-269: new_class() becomes the class_id of edge b when it has none.
ClassifyBackedge(sw, b) ==
  IF Obj(sw, b).class_id = None
  THEN [SetObj(sw, b, [Obj(sw, b) EXCEPT !.class_id = sw.class_counter + 1])
          EXCEPT !.class_counter = @ + 1]
  ELSE sw

RECURSIVE DeleteBackedges(_, _)
\* for b_id in backedges_to[n]: delete it, give it a class if it has none
DeleteBackedges(sw, bs) ==
  IF bs = <<>> THEN sw
  ELSE DeleteBackedges(ClassifyBackedge(delete(sw, Head(bs)), Head(bs)), Tail(bs))

RECURSIVE PushBackedges(_, _)
\* for e_id in backedges_from[n]: bl.push(edges[e_id])
PushBackedges(sw, es) ==
  IF es = <<>> THEN sw ELSE PushBackedges(push(sw, Head(es)), Tail(es))

\* if hi2 < hi0: push a capping edge n -> node_by_dfsnum[hi2]
PushCapping(sw, n, hi0, hi2, D) ==
  IF hi2 < hi0
  THEN LET upper == NodeByDfsnum(D.node_count, D.dfsnum)[hi2]
           cap == sw.edge_count
           made == [sw EXCEPT !.caps = Put(@, cap, NewEdge(cap, n, upper, "capping")),
                              !.edge_count = @ + 1,
                              !.list_node = Put(@, cap, None)]
       IN  [push(made, cap) EXCEPT !.capping_to[upper] = Append(@, cap)]
  ELSE sw

\* A slip of lines 286-288: the test of recent_size is dropped, so every tree
\* edge opens a new class.
ClassifyTreeEdgeAlwaysNew(sw, n, D) ==
  IF D.parent[n] = -1 THEN sw
  ELSE
    LET tree_edge == D.parent_edge[n]
        t == top(sw)
    IN  IF t = None THEN [sw EXCEPT !.error = TRUE]
        ELSE
          LET sw1 == [SetObj(sw, t, [Obj(sw, t) EXCEPT
                                       !.recent_size = sw.bl.size,
                                       !.recent_class = sw.class_counter + 1])
                        EXCEPT !.class_counter = @ + 1]
              cls == Obj(sw1, t).recent_class
              sw2 == SetObj(sw1, tree_edge, [Obj(sw1, tree_edge) EXCEPT !.class_id = cls])
          IN  IF Obj(sw2, t).recent_size = 1 /\ Obj(sw2, t).kind # "capping"
              THEN SetObj(sw2, t, [Obj(sw2, t) EXCEPT !.class_id = cls])
              ELSE sw2

\* if parent[n] != -1: the class of the tree edge into n (or the ValueError)
ClassifyTreeEdge(sw, n, D) ==
  IF D.parent[n] = -1 THEN sw
  ELSE
    LET tree_edge == D.parent_edge[n]
        t == top(sw)
    IN  IF t = None THEN [sw EXCEPT !.error = TRUE]
        ELSE
          LET fresh == Obj(sw, t).recent_size # sw.bl.size
              sw1 == IF fresh
                     THEN [SetObj(sw, t, [Obj(sw, t) EXCEPT
                                            !.recent_size = sw.bl.size,
                                            !.recent_class = sw.class_counter + 1])
                             EXCEPT !.class_counter = @ + 1]
                     ELSE sw
              cls == Obj(sw1, t).recent_class
              sw2 == SetObj(sw1, tree_edge, [Obj(sw1, tree_edge) EXCEPT !.class_id = cls])
          IN  IF Obj(sw2, t).recent_size = 1 /\ Obj(sw2, t).kind # "capping"
              THEN SetObj(sw2, t, [Obj(sw2, t) EXCEPT !.class_id = cls])
              ELSE sw2

\* One iteration of `for n in postorder` (lines 237-293).
sweep_node(sw, n, D) ==
  LET hi0 == Hi0(D.node_count + 1, D.backedges_from[n], D)
      h12 == Hi12(<<D.node_count + 1, D.node_count + 1>>, D.children[n], sw.hi)
      sw1 == [sw EXCEPT !.hi[n] = IF hi0 < h12[1] THEN hi0 ELSE h12[1],
                        !.bl = EmptyList]
      sw2 == ConcatChildren(sw1, D.children[n])
      sw3 == DeleteCaps(sw2, sw2.capping_to[n])
      sw4 == DeleteBackedges(sw3, D.backedges_to[n])
      sw5 == PushBackedges(sw4, D.backedges_from[n])
      sw6 == PushCapping(sw5, n, hi0, h12[2], D)
      sw7 == ClassifyTreeEdge(sw6, n, D)
  IN  IF sw7.error THEN sw7 ELSE [sw7 EXCEPT !.blists[n] = sw7.bl]

\* The sweep state before the first node (lines 226-230).
SweepInit(node_count, E) ==
  [edges |-> E, caps |-> <<>>, edge_count |-> Cardinality(DOMAIN E),
   capping_to |-> [n \in 0..(node_count - 1) |-> <<>>],
   blists |-> [n \in 0..(node_count - 1) |-> EmptyList],
   hi |-> [n \in 0..(node_count - 1) |-> node_count + 1],
   class_counter |-> 0,
   list_node |-> [e \in DOMAIN E |-> None],
   bnode |-> <<>>,
   bl |-> EmptyList,
   error |-> FALSE]

RECURSIVE sweep(_, _, _)
\* for n in postorder: ...; stops at the ValueError.
sweep(sw, po, D) ==
  IF po = <<>> \/ sw.error THEN sw
  ELSE sweep(sweep_node(sw, Head(po), D), Tail(po), D)

\* _cycle_equivalence as a whole: the DFS data and the final sweep state.
cycle_equivalence(node_count, E, uadj, root) ==
  LET st == undirected_dfs(node_count, Cardinality(DOMAIN E), uadj, root)
      D == [node_count |-> node_count, dfsnum |-> st.dfsnum, parent |-> st.parent,
            parent_edge |-> st.parent_edge, children |-> st.children,
            backedges_from |-> st.backedges_from, backedges_to |-> st.backedges_to,
            edge_upper |-> st.edge_upper]
  IN  sweep(SweepInit(node_count, E), st.postorder, D)

\* ------------------------------------------------------------------ edge order
RECURSIVE walk_loop(_, _, _, _)
\* The while loop of walk: st is [visited, order]; stack holds <<node, number
\* of entries of directed_adj[node] already taken>>.
walk_loop(st, stack, dadj, E) ==
  IF stack = <<>> THEN st
  ELSE
    LET node == stack[Len(stack)][1]
        pos == stack[Len(stack)][2]
        rest == SubSeq(stack, 1, Len(stack) - 1)
    IN  IF pos >= Len(dadj[node]) THEN walk_loop(st, rest, dadj, E)
        ELSE
          LET edge_id == dadj[node][pos + 1]
              nxt == E[edge_id].v
              advanced == Append(rest, <<node, pos + 1>>)
              st1 == [st EXCEPT !.order = Append(@, edge_id)]
          IN  IF ~st.visited[nxt]
              THEN walk_loop([st1 EXCEPT !.visited[nxt] = TRUE],
                             Append(advanced, <<nxt, 0>>), dadj, E)
              ELSE walk_loop(st1, advanced, dadj, E)

\* walk(start)
walk(st, start, dadj, E) ==
  walk_loop([st EXCEPT !.visited[start] = TRUE], << <<start, 0>> >>, dadj, E)

\* A slip of lines 159-161: no walk is restarted from the nodes the walk from
\* the root did not visit.
walk_restarts_skipped(st, n, dadj, E) == st

RECURSIVE walk_restarts(_, _, _, _)
\* for n in range(len(directed_adj)): if not visited[n]: walk(n)
walk_restarts(st, n, dadj, E) ==
  IF n >= Cardinality(DOMAIN dadj) THEN st
  ELSE walk_restarts(IF ~st.visited[n] THEN walk(st, n, dadj, E) ELSE st,
                     n + 1, dadj, E)

\* _dfs_edge_order
dfs_edge_order(dadj, E, root) ==
  walk_restarts(walk([visited |-> [n \in DOMAIN dadj |-> FALSE], order |-> <<>>],
                     root, dadj, E),
                0, dadj, E).order

\* ------------------------------------------------------------------ regions
\* RegionInfo
RegionInfo(id, entry_edge, exit_edge, parent_) ==
  [id |-> id, entry_edge |-> entry_edge, exit_edge |-> exit_edge,
   parent |-> parent_, children |-> <<>>]

RECURSIVE region_loop_keep_first(_, _, _, _)
\* A slip of line 441: last_edge_by_class[cls] is set only when the class had
\* no previous edge, so every region of a class starts at its first edge.
region_loop_keep_first(rs, last, order, E) ==
  IF order = <<>> THEN rs
  ELSE
    LET edge_id == Head(order)
        cls == E[edge_id].class_id
    IN  IF cls = None THEN region_loop_keep_first(rs, last, Tail(order), E)
        ELSE IF cls \in DOMAIN last
        THEN region_loop_keep_first(
               Append(rs, RegionInfo(Len(rs) + 1, last[cls], edge_id, None)),
               last, Tail(order), E)
        ELSE region_loop_keep_first(rs, Put(last, cls, edge_id), Tail(order), E)

RECURSIVE region_loop(_, _, _, _)
\* for edge_id in edge_order (lines 425-441): rs is the sequence of regions
\* made so far (region id = position), last is last_edge_by_class.
region_loop(rs, last, order, E) ==
  IF order = <<>> THEN rs
  ELSE
    LET edge_id == Head(order)
        cls == E[edge_id].class_id
    IN  IF cls = None THEN region_loop(rs, last, Tail(order), E)
        ELSE IF cls \in DOMAIN last
        THEN region_loop(Append(rs, RegionInfo(Len(rs) + 1, last[cls], edge_id, None)),
                         Put(last, cls, edge_id), Tail(order), E)
        ELSE region_loop(rs, Put(last, cls, edge_id), Tail(order), E)

\* The region table after line 444: regions 1..N in creation order and root 0.
build_regions(order, E) ==
  LET rs == region_loop(<<>>, <<>>, order, E)
  IN  [r \in 0..Len(rs) |-> IF r = 0 THEN RegionInfo(0, None, None, None) ELSE rs[r]]

\* ------------------------------------------------------------------ dominators
\* A slip of lines 309-310: only the first predecessor is intersected.
IntersectFirst(inter, ps, dom_) ==
  IF ps = <<>> THEN inter ELSE inter \cap dom_[Head(ps)]

RECURSIVE Intersect(_, _, _)
\* inter &= dom[p] for p in ps
Intersect(inter, ps, dom_) ==
  IF ps = <<>> THEN inter ELSE Intersect(inter \cap dom_[Head(ps)], Tail(ps), dom_)

RECURSIVE dominators_pass(_, _, _, _, _)
\* One `for n in range(total)` pass over dom, updated in place; st is
\* [dom, changed].
dominators_pass(st, n, total, start, preds) ==
  IF n >= total THEN st
  ELSE IF n = start THEN dominators_pass(st, n + 1, total, start, preds)
  ELSE
    LET new_dom == IF preds[n] = <<>> THEN {n}
                   ELSE Intersect(0..(total - 1), preds[n], st.dom) \cup {n}
    IN  dominators_pass(IF new_dom # st.dom[n]
                        THEN [dom |-> [st.dom EXCEPT ![n] = new_dom], changed |-> TRUE]
                        ELSE st,
                        n + 1, total, start, preds)

RECURSIVE dominators_loop(_, _, _, _)
\* while changed: ...
dominators_loop(dom_, total, start, preds) ==
  LET st == dominators_pass([dom |-> dom_, changed |-> FALSE], 0, total, start, preds)
  IN  IF st.changed THEN dominators_loop(st.dom, total, start, preds) ELSE st.dom

\* _dominators
dominators(total, start, preds) ==
  dominators_loop([n \in 0..(total - 1) |-> IF n = start THEN {start} ELSE 0..(total - 1)],
                  total, start, preds)

RECURSIVE split_index(_, _, _, _)
\* The first loop of _edge_split_dominators: edge_node_index, an index past
\* the nodes for every edge that is neither back nor capping, in id order.
split_index(eni, e, node_count, E) ==
  IF e >= Cardinality(DOMAIN E) THEN eni
  ELSE split_index(IF E[e].kind \in {"back", "capping"} THEN eni
                   ELSE Put(eni, e, node_count + Cardinality(DOMAIN eni)),
                   e + 1, node_count, E)

RECURSIVE split_graph(_, _, _, _)
\* The second loop: g is [preds, succs] of the edge-split graph, appended to
\* edge by edge.
split_graph(g, e, eni, E) ==
  IF e >= Cardinality(DOMAIN E) THEN g
  ELSE IF E[e].kind \in {"back", "capping"} THEN split_graph(g, e + 1, eni, E)
  ELSE
    LET e_idx == eni[e]
        s1 == [g.succs EXCEPT ![E[e].u] = Append(@, e_idx)]
        p1 == [g.preds EXCEPT ![e_idx] = Append(@, E[e].u)]
    IN  split_graph([succs |-> [s1 EXCEPT ![e_idx] = Append(@, E[e].v)],
                     preds |-> [p1 EXCEPT ![E[e].v] = Append(@, e_idx)]],
                    e + 1, eni, E)

\* _edge_split_dominators
edge_split_dominators(node_count, E, super_entry_idx, super_exit_idx) ==
  LET eni == split_index(<<>>, 0, node_count, E)
      total == node_count + Cardinality(DOMAIN eni)
      empty == [x \in 0..(total - 1) |-> <<>>]
      g == split_graph([preds |-> empty, succs |-> empty], 0, eni, E)
  IN  [edge_node_index |-> eni,
       dom |-> dominators(total, super_entry_idx, g.preds),
       postdom |-> dominators(total, super_exit_idx, g.succs)]

\* ------------------------------------------------------------------ nesting
\* edge_node_index.get(e)
EniGet(eni, e) == IF e \in DOMAIN eni THEN eni[e] ELSE None

\* compute_pst.contains
contains(R, eni, dom_, postdom_, parent_id, child_id) ==
  IF parent_id = 0 THEN TRUE
  ELSE
    LET p == R[parent_id]
        c == R[child_id]
    IN  IF p.entry_edge = None \/ p.exit_edge = None THEN FALSE
        ELSE IF c.entry_edge = None \/ c.exit_edge = None THEN FALSE
        ELSE
          LET p_entry == EniGet(eni, p.entry_edge)
              p_exit == EniGet(eni, p.exit_edge)
              c_entry == EniGet(eni, c.entry_edge)
              c_exit == EniGet(eni, c.exit_edge)
          IN  IF p_entry = None \/ p_exit = None \/ c_entry = None \/ c_exit = None
              THEN FALSE
              ELSE p_entry \in dom_[c_entry] /\ p_exit \in postdom_[c_exit]

\* The iteration order of the dict regions: 1..N as created, then 0.
RegionKeys(R) == [i \in 1..Cardinality(DOMAIN R) |-> IF i = Cardinality(DOMAIN R) THEN 0 ELSE i]

RECURSIVE scan_candidates(_, _, _, _, _, _, _)
\* for candidate_id in regions (lines 477-482): the parent chosen for region_id.
scan_candidates(parent_id, cands, region_id, R, eni, dom_, postdom_) ==
  IF cands = <<>> THEN parent_id
  ELSE
    LET candidate_id == Head(cands)
        take == /\ candidate_id \notin {0, region_id}
                /\ contains(R, eni, dom_, postdom_, candidate_id, region_id)
                /\ (parent_id = 0 \/ contains(R, eni, dom_, postdom_, parent_id, candidate_id))
    IN  scan_candidates(IF take THEN candidate_id ELSE parent_id,
                        Tail(cands), region_id, R, eni, dom_, postdom_)

\* A slip of lines 483-484: the region is listed under the root whatever its
\* parent is.
assign_parent_under_root(R, region_id, parent_id) ==
  [R EXCEPT ![region_id].parent = parent_id,
            ![0].children = Append(@, region_id)]

\* Lines 483-484: regions[region_id].parent = parent_id, and region_id joins
\* the children of regions[parent_id].
assign_parent(R, region_id, parent_id) ==
  [R EXCEPT ![region_id].parent = parent_id,
            ![parent_id].children = Append(@, region_id)]

RECURSIVE nest_loop(_, _, _, _, _)
\* for region_id in list(regions.keys()) (lines 473-484)
nest_loop(R, ids, eni, dom_, postdom_) ==
  IF ids = <<>> THEN R
  ELSE
    LET region_id == Head(ids)
    IN  IF region_id = 0 THEN nest_loop(R, Tail(ids), eni, dom_, postdom_)
        ELSE
          LET parent_id == scan_candidates(0, RegionKeys(R), region_id, R, eni, dom_, postdom_)
          IN  nest_loop(assign_parent(R, region_id, parent_id),
                        Tail(ids), eni, dom_, postdom_)

\* Lines 453-484: children reset, then a parent for every region.
resolve_nesting(R, eni, dom_, postdom_) ==
  nest_loop([r \in DOMAIN R |-> [R[r] EXCEPT !.children = <<>>]],
            RegionKeys(R), eni, dom_, postdom_)

\* ------------------------------------------------------------------ publisher
\* Lines 486-496: the published edge table.
publish_edges(E, order) ==
  [e \in {x \in DOMAIN E : E[x].kind # "capping"} |->
     [id |-> E[e].id, src |-> order[E[e].u + 1], dst |-> order[E[e].v + 1],
      kind |-> E[e].kind,
      class_id |-> IF E[e].class_id # None THEN E[e].class_id ELSE -1]]

\* ------------------------------------------------------------------ actions
\* No direct call of _dominators is in progress.
NoCall ==
  [total |-> 0, start |-> 0, preds |-> <<>>, dom |-> <<>>, changed |-> FALSE,
   passes |-> 0, returned |-> FALSE]

\* The state at the call compute_pst(a).
Called(a) ==
  /\ pc = "start"
  /\ adj = a
  /\ nodes_order = <<>>
  /\ super_entry = None
  /\ super_exit = None
  /\ edges = <<>>
  /\ caps = <<>>
  /\ edge_count = 0
  /\ directed_adj = <<>>
  /\ undirected_adj = <<>>
  /\ dfsnum = <<>>
  /\ parent = <<>>
  /\ parent_edge = <<>>
  /\ children = <<>>
  /\ backedges_from = <<>>
  /\ backedges_to = <<>>
  /\ edge_upper = <<>>
  /\ postorder = <<>>
  /\ capping_to = <<>>
  /\ blists = <<>>
  /\ list_node = <<>>
  /\ bnode = <<>>
  /\ hi = <<>>
  /\ class_counter = 0
  /\ sweep_pos = 0
  /\ edge_order = <<>>
  /\ regions = <<>>
  /\ edge_node_index = <<>>
  /\ dom = <<>>
  /\ postdom = <<>>
  /\ edges_out = <<>>
  /\ dominators_call = NoCall
  /\ consumed = {}

Init == \E a \in Inputs(MaxNodes, MaxEntries, 0) : Called(a)

InitWide == \E a \in Inputs(WideNodes, WideEntries, WideIn) : Called(a)

\* compute_pst, lines 356-413: nodes, augmentation, edge objects, adjacency.
Augment ==
  /\ pc = "start"
  /\ LET order0 == InputNodesOrder(adj)
         se == unique_label("__super_entry__", Range(order0))
         sx == unique_label("__super_exit__", Range(order0) \cup {se})
         order == add_nodes(order0, <<se, sx>>)
         E == MakeEdges(order, EdgesSpec(adj, se, sx))
     IN  /\ nodes_order' = order
         /\ super_entry' = se
         /\ super_exit' = sx
         /\ edges' = E
         /\ directed_adj' = MakeDirectedAdj(Len(order), E)
         /\ undirected_adj' = MakeUndirectedAdj(Len(order), E)
  /\ pc' = "augmented"
  /\ UNCHANGED <<dominators_call, consumed,
                 adj, caps, edge_count, dfsnum, parent, parent_edge, children,
                 backedges_from, backedges_to, edge_upper, postorder, capping_to,
                 blists, list_node, bnode, hi, class_counter, sweep_pos, edge_order,
                 regions, edge_node_index, dom, postdom, edges_out>>

\* The record of DFS results that the sweep reads.
DfsData ==
  [node_count |-> Len(nodes_order), dfsnum |-> dfsnum, parent |-> parent,
   parent_edge |-> parent_edge, children |-> children,
   backedges_from |-> backedges_from, backedges_to |-> backedges_to,
   edge_upper |-> edge_upper]

\* The sweep state held in the variables.
SweepState ==
  [edges |-> edges, caps |-> caps, edge_count |-> edge_count,
   capping_to |-> capping_to, blists |-> blists, hi |-> hi,
   class_counter |-> class_counter, list_node |-> list_node, bnode |-> bnode,
   bl |-> EmptyList, error |-> FALSE]

\* _cycle_equivalence, lines 172-230: the undirected DFS from super_entry and
\* the restarts, then the empty sweep structures.
UndirectedDfs ==
  /\ pc = "augmented"
  /\ LET node_count == Len(nodes_order)
         st == undirected_dfs(node_count, Cardinality(DOMAIN edges), undirected_adj,
                              IndexOf(nodes_order, super_entry))
         sw == SweepInit(node_count, edges)
     IN  /\ dfsnum' = st.dfsnum
         /\ parent' = st.parent
         /\ parent_edge' = st.parent_edge
         /\ children' = st.children
         /\ backedges_from' = st.backedges_from
         /\ backedges_to' = st.backedges_to
         /\ edge_upper' = st.edge_upper
         /\ postorder' = st.postorder
         /\ edge_count' = sw.edge_count
         /\ capping_to' = sw.capping_to
         /\ blists' = sw.blists
         /\ hi' = sw.hi
         /\ list_node' = sw.list_node
         /\ bnode' = sw.bnode
         /\ class_counter' = sw.class_counter
  /\ sweep_pos' = 0
  /\ pc' = "sweep"
  /\ UNCHANGED <<dominators_call, consumed,
                 adj, nodes_order, super_entry, super_exit, edges, caps, directed_adj,
                 undirected_adj, edge_order, regions, edge_node_index, dom, postdom,
                 edges_out>>

\* _cycle_equivalence, lines 237-293: the sweep of the next node of postorder;
\* the ValueError of line 285 ends compute_pst.
SweepNode ==
  /\ pc = "sweep"
  /\ sweep_pos < Len(postorder)
  /\ LET sw == sweep_node(SweepState, postorder[sweep_pos + 1], DfsData)
     IN  /\ edges' = sw.edges
         /\ caps' = sw.caps
         /\ edge_count' = sw.edge_count
         /\ capping_to' = sw.capping_to
         /\ blists' = sw.blists
         /\ hi' = sw.hi
         /\ class_counter' = sw.class_counter
         /\ list_node' = sw.list_node
         /\ bnode' = sw.bnode
         /\ pc' = IF sw.error THEN "error" ELSE "sweep"
  /\ sweep_pos' = sweep_pos + 1
  /\ UNCHANGED <<dominators_call, consumed,
                 adj, nodes_order, super_entry, super_exit, directed_adj,
                 undirected_adj, dfsnum, parent, parent_edge, children, backedges_from,
                 backedges_to, edge_upper, postorder, edge_order, regions,
                 edge_node_index, dom, postdom, edges_out>>

\* compute_pst, line 418: the DFS order of the directed edges.
DfsEdgeOrder ==
  /\ pc = "sweep"
  /\ sweep_pos = Len(postorder)
  /\ edge_order' = dfs_edge_order(directed_adj, edges, IndexOf(nodes_order, super_entry))
  /\ pc' = "ordered"
  /\ UNCHANGED <<dominators_call, consumed,
                 adj, nodes_order, super_entry, super_exit, edges, caps, edge_count,
                 directed_adj, undirected_adj, dfsnum, parent, parent_edge, children,
                 backedges_from, backedges_to, edge_upper, postorder, capping_to,
                 blists, list_node, bnode, hi, class_counter, sweep_pos, regions,
                 edge_node_index, dom, postdom, edges_out>>

\* compute_pst, lines 420-444: the regions, from consecutive edges of a class.
BuildRegions ==
  /\ pc = "ordered"
  /\ regions' = build_regions(edge_order, edges)
  /\ pc' = "regions"
  /\ UNCHANGED <<dominators_call, consumed,
                 adj, nodes_order, super_entry, super_exit, edges, caps, edge_count,
                 directed_adj, undirected_adj, dfsnum, parent, parent_edge, children,
                 backedges_from, backedges_to, edge_upper, postorder, capping_to,
                 blists, list_node, bnode, hi, class_counter, sweep_pos, edge_order,
                 edge_node_index, dom, postdom, edges_out>>

\* compute_pst, lines 446-451: dominators and post-dominators of the
\* edge-split graph.
EdgeSplitDominators ==
  /\ pc = "regions"
  /\ LET r == edge_split_dominators(Len(nodes_order), edges,
                                    IndexOf(nodes_order, super_entry),
                                    IndexOf(nodes_order, super_exit))
     IN  /\ edge_node_index' = r.edge_node_index
         /\ dom' = r.dom
         /\ postdom' = r.postdom
  /\ pc' = "dominators"
  /\ UNCHANGED <<dominators_call, consumed,
                 adj, nodes_order, super_entry, super_exit, edges, caps, edge_count,
                 directed_adj, undirected_adj, dfsnum, parent, parent_edge, children,
                 backedges_from, backedges_to, edge_upper, postorder, capping_to,
                 blists, list_node, bnode, hi, class_counter, sweep_pos, edge_order,
                 regions, edges_out>>

\* compute_pst, lines 453-484: parents and children of the regions.
ResolveNesting ==
  /\ pc = "dominators"
  /\ regions' = resolve_nesting(regions, edge_node_index, dom, postdom)
  /\ pc' = "nested"
  /\ UNCHANGED <<dominators_call, consumed,
                 adj, nodes_order, super_entry, super_exit, edges, caps, edge_count,
                 directed_adj, undirected_adj, dfsnum, parent, parent_edge, children,
                 backedges_from, backedges_to, edge_upper, postorder, capping_to,
                 blists, list_node, bnode, hi, class_counter, sweep_pos, edge_order,
                 edge_node_index, dom, postdom, edges_out>>

\* compute_pst, lines 486-504: the published edges; the PSTResult is returned.
Publish ==
  /\ pc = "nested"
  /\ edges_out' = publish_edges(edges, nodes_order)
  /\ pc' = "done"
  /\ UNCHANGED <<dominators_call, consumed,
                 adj, nodes_order, super_entry, super_exit, edges, caps, edge_count,
                 directed_adj, undirected_adj, dfsnum, parent, parent_edge, children,
                 backedges_from, backedges_to, edge_upper, postorder, capping_to,
                 blists, list_node, bnode, hi, class_counter, sweep_pos, edge_order,
                 regions, edge_node_index, dom, postdom>>

Next ==
  \/ Augment
  \/ UndirectedDfs
  \/ SweepNode
  \/ DfsEdgeOrder
  \/ BuildRegions
  \/ EdgeSplitDominators
  \/ ResolveNesting
  \/ Publish

Spec == Init /\ [][Next]_vars

\* The same program on the larger input set.
SpecWide == InitWide /\ [][Next]_vars
\* ------------------------------------------------------------------ _dominators, called directly
\* Largest number of nodes of a graph passed to _dominators directly.
MaxDomNodes == 3

RECURSIVE SortedList(_)
\* The list of the numbers of S in increasing order.
SortedList(S) ==
  IF S = {} THEN <<>>
  ELSE LET least == CHOOSE x \in S : \A y \in S : x <= y
       IN  <<least>> \o SortedList(S \ {least})

\* The variables of compute_pst.
pipeline_vars ==
  <<pc, adj, nodes_order, super_entry, super_exit, edges, caps, edge_count,
    directed_adj, undirected_adj, dfsnum, parent, parent_edge, children,
    backedges_from, backedges_to, edge_upper, postorder, capping_to, blists,
    list_node, bnode, hi, class_counter, sweep_pos, edge_order, regions,
    edge_node_index, dom, postdom, edges_out>>

\* Nothing of compute_pst but the bracket lists is in use.
NoSweep ==
  /\ adj = <<>>
  /\ nodes_order = <<>>
  /\ super_entry = None
  /\ super_exit = None
  /\ edges = <<>>
  /\ caps = <<>>
  /\ edge_count = 0
  /\ directed_adj = <<>>
  /\ undirected_adj = <<>>
  /\ dfsnum = <<>>
  /\ parent = <<>>
  /\ parent_edge = <<>>
  /\ children = <<>>
  /\ backedges_from = <<>>
  /\ backedges_to = <<>>
  /\ edge_upper = <<>>
  /\ postorder = <<>>
  /\ capping_to = <<>>
  /\ hi = <<>>
  /\ class_counter = 0
  /\ sweep_pos = 0
  /\ edge_order = <<>>
  /\ regions = <<>>
  /\ edge_node_index = <<>>
  /\ dom = <<>>
  /\ postdom = <<>>
  /\ edges_out = <<>>

\* compute_pst is not running.
NoPipeline ==
  /\ pc = "idle"
  /\ blists = <<>>
  /\ list_node = <<>>
  /\ bnode = <<>>
  /\ NoSweep

\* The state at the call _dominators(total, start, preds), after lines 297-299.
DominatorsCalled(total, start, preds) ==
  /\ NoPipeline
  /\ consumed = {}
  /\ dominators_call =
       [total |-> total, start |-> start, preds |-> preds,
        dom |-> [n \in 0..(total - 1) |-> IF n = start THEN {start} ELSE 0..(total - 1)],
        changed |-> TRUE, passes |-> 0, returned |-> FALSE]

\* Every graph of at most MaxDomNodes nodes, with any start node; each preds
\* list holds a set of nodes in increasing order.
InitDominators ==
  \E total \in 1..MaxDomNodes :
    \E start \in 0..(total - 1) :
      \E P \in [0..(total - 1) -> SUBSET (0..(total - 1))] :
        DominatorsCalled(total, start, [n \in 0..(total - 1) |-> SortedList(P[n])])

\* One iteration of `while changed` (lines 300-314).
DominatorsPass ==
  /\ dominators_call.total > 0
  /\ ~dominators_call.returned
  /\ dominators_call.changed
  /\ LET c == dominators_call
         st == dominators_pass([dom |-> c.dom, changed |-> FALSE], 0, c.total, c.start,
                               c.preds)
     IN  dominators_call' = [c EXCEPT !.dom = st.dom, !.changed = st.changed,
                                      !.passes = @ + 1]
  /\ UNCHANGED <<pipeline_vars, consumed>>

\* return dom (line 315), once a pass changed nothing.
DominatorsReturn ==
  /\ dominators_call.total > 0
  /\ ~dominators_call.returned
  /\ ~dominators_call.changed
  /\ dominators_call' = [dominators_call EXCEPT !.returned = TRUE]
  /\ UNCHANGED <<pipeline_vars, consumed>>

NextDominators ==
  \/ DominatorsPass
  \/ DominatorsReturn
  \/ Next

\* The calls of _dominators: direct ones, and those compute_pst makes.
InitDominatorsOrPipeline ==
  \/ InitDominators
  \/ Init

\* _dominators called directly on any small graph, and called by compute_pst.
SpecDominators == InitDominatorsOrPipeline /\ [][NextDominators]_vars

\* ------------------------------------------------------------------ bracket lists, used directly
\* The number of _BracketList objects and of _Edge objects.
MaxLists == 3
MaxBracketEdges == 3

\* The variables of compute_pst that the bracket lists do not use.
sweep_vars ==
  <<adj, nodes_order, super_entry, super_exit, edges, caps, edge_count,
    directed_adj, undirected_adj, dfsnum, parent, parent_edge, children,
    backedges_from, backedges_to, edge_upper, postorder, capping_to,
    hi, class_counter, sweep_pos, edge_order, regions,
    edge_node_index, dom, postdom, edges_out>>

\* New objects: each list is _BracketList(), each edge has list_node None.
InitBrackets ==
  /\ pc = "brackets"
  /\ blists = [i \in 0..(MaxLists - 1) |-> EmptyList]
  /\ list_node = [e \in 0..(MaxBracketEdges - 1) |-> None]
  /\ bnode = <<>>
  /\ consumed = {}
  /\ dominators_call = NoCall
  /\ NoSweep

RECURSIVE WalkFrom(_, _)
\* The bracket nodes from `node` on in the order of next (at most fuel of
\* them).
WalkFrom(node, fuel) ==
  IF node = None \/ fuel = 0 THEN <<>>
  ELSE <<node>> \o WalkFrom(bnode[node].next, fuel - 1)

\* The nodes reachable from the head of bl via next, in order.
Walk(bl) == WalkFrom(bl.head, Cardinality(DOMAIN bnode))

\* The list object i holds edge e: the node of e is reachable from its head.
Holds(i, e) == e \in Range(Walk(blists[i]))

\* The lists still in use: not taken as `right` by a merging _concat_blist.
Live == (DOMAIN blists) \ consumed

\* The list object i as `self`, with the objects its methods reach.
Self(i) == [list_node |-> list_node, bnode |-> bnode, bl |-> blists[i]]

\* blists[i].push(e), for an edge that was never pushed.
BracketPush ==
  /\ pc = "brackets"
  /\ \E i \in Live :
       \E e \in (DOMAIN list_node) \ (DOMAIN bnode) :
         LET r == push(Self(i), e)
         IN  /\ blists' = [blists EXCEPT ![i] = r.bl]
             /\ list_node' = r.list_node
             /\ bnode' = r.bnode
  /\ UNCHANGED <<pc, consumed, dominators_call, sweep_vars>>

\* blists[i].delete(e), for an edge that list i holds or that no list in use
\* holds.
BracketDelete ==
  /\ pc = "brackets"
  /\ \E i \in Live :
       \E e \in DOMAIN list_node :
         /\ Holds(i, e) \/ \A j \in Live : ~Holds(j, e)
         /\ LET r == delete(Self(i), e)
            IN  /\ blists' = [blists EXCEPT ![i] = r.bl]
                /\ list_node' = r.list_node
                /\ bnode' = r.bnode
  /\ UNCHANGED <<pc, consumed, dominators_call, sweep_vars>>

\* _concat_blist(blists[i], blists[j]) on two different lists in use.  When
\* neither is empty the object blists[i] is changed and returned, and
\* blists[j] keeps its head, tail and size; otherwise an operand is returned
\* as it is.
BracketConcat ==
  /\ pc = "brackets"
  /\ \E i \in Live :
       \E j \in Live \ {i} :
         LET r == concat_blist(Self(j), blists[i])
             merging == blists[i].size # 0 /\ blists[j].size # 0
         IN  /\ blists' = IF merging THEN [blists EXCEPT ![i] = r.bl] ELSE blists
             /\ bnode' = r.bnode
             /\ consumed' = IF merging THEN consumed \cup {j} ELSE consumed
  /\ UNCHANGED <<pc, list_node, dominators_call, sweep_vars>>

NextBrackets == BracketPush \/ BracketDelete \/ BracketConcat

SpecBrackets == InitBrackets /\ [][NextBrackets]_vars

\* ------------------------------------------------------------------ scenarios
\* k copies of x.
Copies(x, k) == [i \in 1..k |-> x]

\* _make_adj of the tests: the keys are the nodes of the edge list es in sorted
\* order (nodes lists them so), and every out and in list is sorted.
make_adj(nodes, es) ==
  LET count(u, v) == Cardinality({i \in 1..Len(es) : es[i] = <<u, v>>})
      outs(u) == Concat([j \in 1..Len(nodes) |-> Copies(nodes[j], count(u, nodes[j]))])
      ins(v) == Concat([j \in 1..Len(nodes) |-> Copies(nodes[j], count(nodes[j], v))])
  IN  [i \in 1..Len(nodes) |->
         [key |-> nodes[i], out |-> outs(nodes[i]), in |-> ins(nodes[i])]]

\* The same adjacency without its `in` lists (a missing `in` reads as empty).
OutOnly(a) == [i \in DOMAIN a |-> [a[i] EXCEPT !.in = <<>>]]

\* Diamond: S->A, A->B, A->C, B->D, C->D, D->T.
DiamondAdj ==
  make_adj(<<"A", "B", "C", "D", "S", "T">>,
           << <<"S", "A">>, <<"A", "B">>, <<"A", "C">>, <<"B", "D">>, <<"C", "D">>,
              <<"D", "T">> >>)

\* Loop: S->A, A->B, B->C, C->B, C->T.
LoopAdj ==
  make_adj(<<"A", "B", "C", "S", "T">>,
           << <<"S", "A">>, <<"A", "B">>, <<"B", "C">>, <<"C", "B">>, <<"C", "T">> >>)

\* Linear chain: A->B, B->C.
ChainAdj == make_adj(<<"A", "B", "C">>, << <<"A", "B">>, <<"B", "C">> >>)

\* Disconnected pair: A->B and C->D.
PairAdj == make_adj(<<"A", "B", "C", "D">>, << <<"A", "B">>, <<"C", "D">> >>)

\* Parallel edges: A->B twice.
ParallelAdj == make_adj(<<"A", "B">>, << <<"A", "B">>, <<"A", "B">> >>)

\* Self-loop: A->A.
SelfLoopAdj == make_adj(<<"A">>, << <<"A", "A">> >>)

\* A single node with no edges.
SingleAdj == make_adj(<<"A">>, <<>>)

\* The empty adjacency map.
EmptyAdj == <<>>

\* The scenario inputs, each with and without its `in` lists.
Scenarios ==
  LET full == {DiamondAdj, LoopAdj, ChainAdj, PairAdj, ParallelAdj, SelfLoopAdj,
               SingleAdj, EmptyAdj}
  IN  full \cup {OutOnly(a) : a \in full}

InitScenarios == \E a \in Scenarios : Called(a)

SpecScenarios == InitScenarios /\ [][Next]_vars

\* ------------------------------------------------------------------ the result
\* compute_pst has returned its PSTResult.
Done == pc = "done"

\* The ids of the regions other than the root.
NonRoot == DOMAIN regions \ {0}

\* The published edges that are not the back edge.
NonBack == {e \in DOMAIN edges_out : edges_out[e].kind # "back"}

\* A published edge as the tests identify it: (src, dst, kind).
EdgeKey(e) == <<edges_out[e].src, edges_out[e].dst, edges_out[e].kind>>

\* Number of ends that the edges of C have at node n (a self-loop has two).
Deg(C, n) ==
  Cardinality({e \in C : edges[e].u = n}) + Cardinality({e \in C : edges[e].v = n})

\* The non-empty sets of edges of the augmented graph that meet every node
\* zero or two times: the disjoint unions of simple undirected cycles.
TwoRegular ==
  {C \in SUBSET (DOMAIN edges_out) :
     C # {} /\ \A n \in 0..(Len(nodes_order) - 1) : Deg(C, n) \in {0, 2}}

\* The simple undirected cycles of the augmented graph, as sets of edges: the
\* minimal members of TwoRegular.
SimpleCycles ==
  LET T == TwoRegular
  IN  {C \in T : \A D \in T : D \subseteq C => D = C}

\* Edge-split(a) is in dom(edge-split(b)).
InDom(a, b) == edge_node_index[a] \in dom[edge_node_index[b]]

\* Edge-split(b) is in postdom(edge-split(a)).
InPostdom(b, a) == edge_node_index[b] \in postdom[edge_node_index[a]]

\* Region c contains region r: c's entry in dom of r's entry, c's exit in
\* postdom of r's exit.
Contains(c, r) ==
  /\ InDom(regions[c].entry_edge, regions[r].entry_edge)
  /\ InPostdom(regions[c].exit_edge, regions[r].exit_edge)

\* The (entry, exit) pairs of the non-root regions of the result.
PstPairs ==
  {<<EdgeKey(regions[r].entry_edge), EdgeKey(regions[r].exit_edge)>> : r \in NonRoot}

\* The naive oracle: the SESE pairs of cycle-equivalent edges, filtered to
\* the canonical ones.
OraclePairs ==
  LET cyc == SimpleCycles
      on(e) == {C \in cyc : e \in C}
      sese == {ab \in NonBack \X NonBack :
                 /\ ab[1] # ab[2]
                 /\ on(ab[1]) = on(ab[2])
                 /\ InDom(ab[1], ab[2])
                 /\ InPostdom(ab[2], ab[1])}
      exits(a) == {ab[2] : ab \in {x \in sese : x[1] = a}}
      entries(b) == {ab[1] : ab \in {x \in sese : x[2] = b}}
      canonical == {ab \in sese :
                      /\ \A x \in exits(ab[1]) \ {ab[2]} : ~InDom(x, ab[2])
                      /\ \A x \in entries(ab[2]) \ {ab[1]} : ~InPostdom(x, ab[1])}
  IN  {<<EdgeKey(ab[1]), EdgeKey(ab[2])>> : ab \in canonical}

\* Number of times x occurs in the sequence s.
Occurrences(s, x) == Cardinality({i \in 1..Len(s) : s[i] = x})

RECURSIVE ReachesRoot(_, _)
\* Following parent from region r reaches region 0 within fuel steps.
ReachesRoot(r, fuel) ==
  IF r = 0 THEN TRUE
  ELSE IF fuel = 0 \/ r = None THEN FALSE
  ELSE ReachesRoot(regions[r].parent, fuel - 1)

RECURSIVE ReachableFrom(_)
\* The nodes reachable along directed edges (of every kind) from the set S.
ReachableFrom(S) ==
  LET more == S \cup {edges[e].v : e \in {x \in DOMAIN edges : edges[x].u \in S}}
  IN  IF more = S THEN S ELSE ReachableFrom(more)

\* ------------------------------------------------------------------ claims
\* C1: whenever compute_pst returns, the set of (entry edge, exit edge) pairs
\* of its non-root regions, each edge identified by (src, dst, kind), equals
\* the set of the naive oracle: the pairs of distinct non-back edges on the same
\* simple undirected cycles, the first in dom of the second and the second in
\* postdom of the first, filtered to the canonical pairs.
C1_RegionsMatchNaiveOracle == Done => PstPairs = OraclePairs

\* C2: whenever compute_pst returns, two non-back published edges have the
\* same class_id if and only if they lie on exactly the same simple undirected
\* cycles of the augmented graph.
C2_ClassIffSameCycles ==
  Done =>
    LET cyc == SimpleCycles
    IN  \A e, f \in NonBack :
          (edges_out[e].class_id = edges_out[f].class_id)
            <=> ({C \in cyc : e \in C} = {C \in cyc : f \in C})

\* C3: for every input adjacency with at least one node, compute_pst never
\* raises the "empty bracket list" ValueError.
C3_NeverRaises == adj # <<>> => pc # "error"

\* C4: in every result, the parent links of every non-root region lead to
\* region 0, and region 0 is the only region whose parent is null.
C4_ParentChainsReachRoot ==
  Done =>
    /\ regions[0].parent = None
    /\ \A r \in NonRoot :
         regions[r].parent # None /\ ReachesRoot(r, Cardinality(DOMAIN regions))

\* C5: in every result, a non-root region that no other non-root region
\* contains has parent 0, and any other has as parent a region that contains
\* it and is contained by every other region containing it.
C5_ParentIsInnermostContainer ==
  Done =>
    \A r \in NonRoot :
      LET containers == {c \in NonRoot \ {r} : Contains(c, r)}
          p == regions[r].parent
      IN  IF containers = {} THEN p = 0
          ELSE p \in containers /\ \A c \in containers \ {p} : Contains(c, p)

\* C6: in every result, for every non-root region the edge-split node of its
\* entry edge is in the dominator set of the edge-split node of its exit edge,
\* and that of its exit edge is in the post-dominator set of that of its entry
\* edge.
C6_EntryDominatesExit ==
  Done =>
    \A r \in NonRoot :
      /\ InDom(regions[r].entry_edge, regions[r].exit_edge)
      /\ InPostdom(regions[r].exit_edge, regions[r].entry_edge)

\* C7: whenever compute_pst returns, every published edge, of kind orig,
\* super_entry, super_exit or back, has class_id >= 1: the sentinel -1 is not
\* in the published edge table.
C7_EveryPublishedEdgeClassified ==
  Done => \A e \in DOMAIN edges_out : edges_out[e].class_id >= 1

\* C7 witness: a result whose published table holds a classified orig edge
\* that the undirected DFS met as a backedge, beside the edges of the three
\* synthetic kinds.
C7_Witness ==
  /\ Done
  /\ \E e \in DOMAIN edges_out :
       /\ edges_out[e].kind = "orig"
       /\ edge_upper[e] # -1
       /\ edges_out[e].class_id >= 1
  /\ \A k \in {"super_entry", "super_exit", "back"} :
       \E e \in DOMAIN edges_out : edges_out[e].kind = k /\ edges_out[e].class_id >= 1

\* C8: in every result, containment is antisymmetric on the non-root regions:
\* no two distinct non-root regions contain each other.
C8_ContainmentAntisymmetric ==
  Done =>
    \A c, r \in NonRoot : c # r => ~(Contains(c, r) /\ Contains(r, c))

\* C9: in every result, every non-root region occurs exactly once in the
\* children of its parent and in no other children list, and region 0 occurs in
\* no children list.
C9_ChildrenMatchParents ==
  Done =>
    /\ \A r \in NonRoot :
         \A p \in DOMAIN regions :
           Occurrences(regions[p].children, r) = IF p = regions[r].parent THEN 1 ELSE 0
    /\ \A p \in DOMAIN regions : Occurrences(regions[p].children, 0) = 0

\* C9 witness: a result with a region nested in another non-root region and a
\* region directly under the root, each in the children of its parent.
C9_Witness ==
  /\ Done
  /\ \E r, q \in NonRoot :
       /\ regions[r].parent \in NonRoot
       /\ Occurrences(regions[regions[r].parent].children, r) = 1
       /\ regions[q].parent = 0
       /\ Occurrences(regions[0].children, q) = 1

\* C10: for every non-empty input the augmented directed graph (orig,
\* super_entry, super_exit edges and the back edge) is strongly connected.
C10_AugmentedStronglyConnected ==
  (pc # "start" /\ adj # <<>>) =>
    \A n \in 0..(Len(nodes_order) - 1) :
      ReachableFrom({n}) = 0..(Len(nodes_order) - 1)
\* The published edge from u to v of the given kind (one such edge exists).
EdgeOf(u, v, kind) == CHOOSE e \in DOMAIN edges_out : EdgeKey(e) = <<u, v, kind>>

\* C11: whenever compute_pst returns, the class_id of every self-loop edge
\* n -> n is shared by no other published edge, and no region has a self-loop
\* as its entry_edge or exit_edge.
C11_SelfLoopInItsOwnClass ==
  Done =>
    \A e \in DOMAIN edges_out :
      edges_out[e].src = edges_out[e].dst =>
        /\ \A f \in DOMAIN edges_out \ {e} :
             edges_out[f].class_id # edges_out[e].class_id
        /\ \A r \in NonRoot : regions[r].entry_edge # e /\ regions[r].exit_edge # e

\* C12 as stated: on the loop input S->A, A->B, B->C, C->B, C->T the result
\* has a region with entry edge S->A and exit edge C->T, and the edges B->C
\* and C->B have the same class_id.
C12_LoopAsStated ==
  (Done /\ adj \in {LoopAdj, OutOnly(LoopAdj)}) =>
    /\ << <<"S", "A", "orig">>, <<"C", "T", "orig">> >> \in PstPairs
    /\ edges_out[EdgeOf("B", "C", "orig")].class_id
         = edges_out[EdgeOf("C", "B", "orig")].class_id

\* C12 amended: on the loop input S->A, A->B, B->C, C->B, C->T the result has
\* a region with entry edge A->B and exit edge C->T (and regions S->A / A->B
\* before it, none from S->A to C->T), and the edges B->C and C->B have
\* different class_ids.
C12_LoopRegions ==
  (Done /\ adj \in {LoopAdj, OutOnly(LoopAdj)}) =>
    /\ << <<"A", "B", "orig">>, <<"C", "T", "orig">> >> \in PstPairs
    /\ << <<"S", "A", "orig">>, <<"A", "B", "orig">> >> \in PstPairs
    /\ << <<"S", "A", "orig">>, <<"C", "T", "orig">> >> \notin PstPairs
    /\ edges_out[EdgeOf("B", "C", "orig")].class_id
         # edges_out[EdgeOf("C", "B", "orig")].class_id

\* C12 witness: the result of the loop input, with the region A->B / C->T.
C12_Witness ==
  /\ Done
  /\ adj = LoopAdj
  /\ << <<"A", "B", "orig">>, <<"C", "T", "orig">> >> \in PstPairs

\* C13 as stated: on the linear chain A->B, B->C the result has exactly one
\* non-root region, from the super_entry edge to the super_exit edge, and it
\* has no children.
C13_ChainAsStated ==
  (Done /\ adj \in {ChainAdj, OutOnly(ChainAdj)}) =>
    /\ Cardinality(NonRoot) = 1
    /\ \A r \in NonRoot :
         /\ edges_out[regions[r].entry_edge].kind = "super_entry"
         /\ edges_out[regions[r].exit_edge].kind = "super_exit"
         /\ regions[r].children = <<>>

\* C13 amended: on the linear chain A->B, B->C the result has exactly three
\* non-root regions, chained from the super_entry edge to the super_exit edge:
\* (super_entry->A, A->B), (A->B, B->C), (B->C, C->super_exit); none has
\* children.
C13_ChainRegions ==
  (Done /\ adj \in {ChainAdj, OutOnly(ChainAdj)}) =>
    /\ Cardinality(NonRoot) = 3
    /\ PstPairs = { << <<super_entry, "A", "super_entry">>, <<"A", "B", "orig">> >>,
                    << <<"A", "B", "orig">>, <<"B", "C", "orig">> >>,
                    << <<"B", "C", "orig">>, <<"C", super_exit, "super_exit">> >> }
    /\ \A r \in NonRoot : regions[r].children = <<>>

\* C13 witness: the result of the chain input, with three non-root regions.
C13_Witness == Done /\ adj = ChainAdj /\ Cardinality(NonRoot) = 3

\* C14 as stated: on a single node with no edges the region table of the
\* result contains only region 0.
C14_SingleNodeAsStated ==
  (Done /\ adj = SingleAdj) => DOMAIN regions = {0}

\* C14 amended: on a single node A with no edges the result has exactly one
\* non-root region, whose entry edge is super_entry->A and whose exit edge is
\* A->super_exit, the only child of region 0, with no children.
C14_SingleNodeRegion ==
  (Done /\ adj = SingleAdj) =>
    /\ DOMAIN regions = {0, 1}
    /\ EdgeKey(regions[1].entry_edge) = <<super_entry, "A", "super_entry">>
    /\ EdgeKey(regions[1].exit_edge) = <<"A", super_exit, "super_exit">>
    /\ regions[1].parent = 0
    /\ regions[1].children = <<>>
    /\ regions[0].children = <<1>>

\* C14 witness: the result of the single-node input, with its region 1.
C14_Witness == Done /\ adj = SingleAdj /\ 1 \in DOMAIN regions

\* C15: on the empty adjacency map compute_pst raises no error and returns a
\* result whose region table contains only region 0 and whose only nodes are
\* super_entry and super_exit.
C15_EmptyInputReturns ==
  adj = EmptyAdj =>
    /\ pc # "error"
    /\ Done => /\ DOMAIN regions = {0}
               /\ Range(nodes_order) = {super_entry, super_exit}
\* The nodes of the input: its keys and every entry of its out and in lists.
InputNodes ==
  UNION {{adj[u].key} \cup Range(adj[u].out) \cup Range(adj[u].in) : u \in DOMAIN adj}

\* The <<key position, list position>> of the `out` entries from u to v.
OutEntries(u, v) ==
  {ui \in UNION {{<<k, i>> : i \in DOMAIN adj[k].out} : k \in DOMAIN adj} :
     adj[ui[1]].key = u /\ adj[ui[1]].out[ui[2]] = v}

\* The published edges with the given (src, dst, kind).
EdgesWithKey(u, v, kind) == {e \in DOMAIN edges_out : EdgeKey(e) = <<u, v, kind>>}

\* C16: whenever compute_pst returns, the synthetic published edges are
\* exactly: one super_entry edge super_entry -> n for each node n that no `out`
\* entry names (for every node if there is no such node), one super_exit edge
\* n -> super_exit for each node n with an empty `out` list (for every node if
\* there is none), and one back edge super_exit -> super_entry.
C16_SyntheticEdges ==
  Done =>
    LET zero_in == {n \in InputNodes : \A u \in InputNodes : OutEntries(u, n) = {}}
        zero_out == {n \in InputNodes : \A v \in InputNodes : OutEntries(n, v) = {}}
        entry_nodes == IF zero_in = {} THEN InputNodes ELSE zero_in
        exit_nodes == IF zero_out = {} THEN InputNodes ELSE zero_out
    IN  /\ \A n \in entry_nodes :
             Cardinality(EdgesWithKey(super_entry, n, "super_entry")) = 1
        /\ \A n \in exit_nodes :
             Cardinality(EdgesWithKey(n, super_exit, "super_exit")) = 1
        /\ Cardinality(EdgesWithKey(super_exit, super_entry, "back")) = 1
        /\ \A e \in DOMAIN edges_out :
             \/ edges_out[e].kind = "orig"
             \/ /\ edges_out[e].kind = "super_entry"
                /\ edges_out[e].src = super_entry
                /\ edges_out[e].dst \in entry_nodes
             \/ /\ edges_out[e].kind = "super_exit"
                /\ edges_out[e].dst = super_exit
                /\ edges_out[e].src \in exit_nodes
             \/ /\ edges_out[e].kind = "back"
                /\ edges_out[e].src = super_exit
                /\ edges_out[e].dst = super_entry

\* C16 witness: a result for an input in which a node has a non-empty `in`
\* list but is named by no `out` entry, and has its super_entry edge, while
\* another node has none.
C16_Witness ==
  /\ Done
  /\ \E u \in DOMAIN adj :
       /\ adj[u].in # <<>>
       /\ \A w \in InputNodes : OutEntries(w, adj[u].key) = {}
       /\ Cardinality(EdgesWithKey(super_entry, adj[u].key, "super_entry")) = 1
  /\ \E n \in InputNodes : EdgesWithKey(super_entry, n, "super_entry") = {}

\* C17: whenever compute_pst returns, the published edge table holds exactly
\* one orig edge per entry of the `out` lists (a repeated entry gives parallel
\* edges with distinct ids, each with a class_id), and no edge of kind
\* capping, even when the sweep created capping edges.
C17_OrigEdgesPerOutEntry ==
  Done =>
    /\ \A u, v \in InputNodes :
         Cardinality(EdgesWithKey(u, v, "orig")) = Cardinality(OutEntries(u, v))
    /\ \A e \in DOMAIN edges_out :
         /\ edges_out[e].id = e
         /\ edges_out[e].kind \in {"orig", "super_entry", "super_exit", "back"}
         /\ edges_out[e].kind = "orig" =>
              /\ edges_out[e].src \in InputNodes
              /\ edges_out[e].dst \in InputNodes
              /\ edges_out[e].class_id >= 1
    /\ DOMAIN caps \cap DOMAIN edges_out = {}

\* C17 witness: a result for an input with a repeated `out` entry, published
\* as two parallel orig edges, where the sweep created a capping edge.
C17_Witness ==
  /\ Done
  /\ \E u, v \in InputNodes : Cardinality(EdgesWithKey(u, v, "orig")) >= 2
  /\ DOMAIN caps # {}
\* The positions of the DFS edge order whose edge has class c.
ClassPositions(c) == {i \in 1..Len(edge_order) : edges_out[edge_order[i]].class_id = c}

\* The pairs of edges that are consecutive members of one class in the DFS
\* edge order.
ConsecutivePairs ==
  {<<edge_order[ij[1]], edge_order[ij[2]]>> :
     ij \in {x \in (1..Len(edge_order)) \X (1..Len(edge_order)) :
               /\ x[1] < x[2]
               /\ LET c == edges_out[edge_order[x[1]]].class_id
                  IN  /\ x[2] \in ClassPositions(c)
                      /\ \A k \in (x[1] + 1)..(x[2] - 1) : k \notin ClassPositions(c)}}

\* C18: whenever compute_pst returns, the non-root regions are exactly the
\* pairs of consecutive same-class edges of the DFS edge order: a class with k
\* members in the order yields k-1 regions; entry and exit of a region have
\* equal class_id; region ids are 1..N in increasing position of the exit edge;
\* region 0 is the root, with null entry and exit.
C18_RegionsAreConsecutivePairs ==
  Done =>
    /\ {<<regions[r].entry_edge, regions[r].exit_edge>> : r \in NonRoot} = ConsecutivePairs
    /\ Cardinality(NonRoot) = Cardinality(ConsecutivePairs)
    /\ \A c \in {edges_out[e].class_id : e \in Range(edge_order)} :
         Cardinality({r \in NonRoot : edges_out[regions[r].entry_edge].class_id = c})
           = Cardinality(ClassPositions(c)) - 1
    /\ \A r \in NonRoot :
         /\ edges_out[regions[r].entry_edge].class_id
              = edges_out[regions[r].exit_edge].class_id
         /\ regions[r].id = r
    /\ DOMAIN regions = 0..Cardinality(NonRoot)
    /\ \A r, q \in NonRoot :
         r < q => \A i, j \in 1..Len(edge_order) :
                    (edge_order[i] = regions[r].exit_edge
                       /\ edge_order[j] = regions[q].exit_edge) => i < j
    /\ regions[0].id = 0
    /\ regions[0].entry_edge = None
    /\ regions[0].exit_edge = None

\* C18 witness: a result in which one class has three or more members in the
\* edge order, so two or more regions, and another class has a region too.
C18_Witness ==
  /\ Done
  /\ \E r, q \in NonRoot :
       /\ r # q
       /\ regions[r].exit_edge = regions[q].entry_edge
  /\ \E r, q \in NonRoot :
       edges_out[regions[r].entry_edge].class_id
         # edges_out[regions[q].entry_edge].class_id
RECURSIVE ListFrom(_, _)
\* The edges of the bracket nodes from `node` on, following next (at most
\* fuel of them).
ListFrom(node, fuel) ==
  IF node = None \/ fuel = 0 THEN {}
  ELSE {node} \cup ListFrom(bnode[node].next, fuel - 1)

\* The edges in the bracket list bl.
Brackets(bl) == ListFrom(bl.head, Cardinality(DOMAIN bnode))

RECURSIVE IsStrictAncestor(_, _, _)
\* Node a is reached from node n by one or more parent steps of the DFS tree.
IsStrictAncestor(a, n, fuel) ==
  IF fuel = 0 \/ parent[n] = -1 THEN FALSE
  ELSE parent[n] = a \/ IsStrictAncestor(a, parent[n], fuel - 1)

\* The sweep has processed node n.
Swept(n) == \E i \in 1..sweep_pos : postorder[i] = n

\* The sweep has processed every node without raising.
SweepOver == pc \notin {"start", "augmented", "error"} /\ sweep_pos = Len(postorder)

\* C19: during the sweep, every capping edge created at a node n has as its
\* upper endpoint a strict DFS ancestor of n, with a smaller dfsnum; every
\* capping edge is out of the bracket lists once that endpoint is processed;
\* and at the end of the sweep no capping edge is in the bracket list of a DFS
\* root.
C19_CappingEdgesEndAtAncestors ==
  /\ \A c \in DOMAIN caps :
       /\ dfsnum[caps[c].v] < dfsnum[caps[c].u]
       /\ IsStrictAncestor(caps[c].v, caps[c].u, Len(nodes_order))
       /\ (Swept(caps[c].v) /\ pc # "error") => list_node[c] = None
  /\ SweepOver =>
       \A n \in DOMAIN parent :
         parent[n] = -1 => Brackets(blists[n]) \cap DOMAIN caps = {}
\* _dfs_edge_order has returned.
Ordered == pc \in {"ordered", "regions", "dominators", "nested", "done"}

\* C20: the DFS edge order holds every non-back edge of the augmented graph
\* exactly once (also the edges whose source the walk from super_entry does not
\* reach) and never the back edge; so in every result no region has its entry
\* edge equal to its exit edge, no region is bounded by the back edge, and each
\* edge is the entry of at most one region and the exit of at most one.
C20_EdgeOrderCoversNonBackEdgesOnce ==
  /\ Ordered =>
       /\ Range(edge_order) \subseteq DOMAIN edges
       /\ \A e \in DOMAIN edges :
            Cardinality({i \in 1..Len(edge_order) : edge_order[i] = e})
              = IF edges[e].kind = "back" THEN 0 ELSE 1
  /\ Done =>
       /\ \A r \in NonRoot :
            /\ regions[r].entry_edge # regions[r].exit_edge
            /\ edges_out[regions[r].entry_edge].kind # "back"
            /\ edges_out[regions[r].exit_edge].kind # "back"
       /\ \A r, q \in NonRoot :
            r # q => /\ regions[r].entry_edge # regions[q].entry_edge
                     /\ regions[r].exit_edge # regions[q].exit_edge

\* C20 witness: a result whose edge order holds an edge with a source that is
\* not reachable from super_entry, and which has two or more regions.
C20_Witness ==
  /\ Done
  /\ \E i \in 1..Len(edge_order) :
       edges[edge_order[i]].u \notin ReachableFrom({IndexOf(nodes_order, super_entry)})
  /\ Cardinality(NonRoot) >= 2
RECURSIVE Closure(_, _, _)
\* The nodes reached from the set S along the pairs of R without entering d.
Closure(R, S, d) ==
  LET more == S \cup {xy[2] : xy \in {p \in R : p[1] \in S /\ p[2] # d}}
  IN  IF more = S THEN S ELSE Closure(R, more, d)

\* The nodes that paths from start reach without passing through d (all the
\* reachable nodes when d is None).
ReachedAvoiding(R, start, d) == IF start = d THEN {} ELSE Closure(R, {start}, d)

\* D gives every node n reachable from start exactly the nodes of N that lie
\* on every path from start to n, and gives start the set {start}.
ExactOnReachable(R, N, start, D) ==
  /\ D[start] = {start}
  /\ \A n \in ReachedAvoiding(R, start, None) :
       D[n] = {d \in N : n \notin ReachedAvoiding(R, start, d)}

\* The graph of the direct call: a pair <<p, n>> for every p in preds[n].
CallRelation ==
  {pn \in (0..(dominators_call.total - 1)) \X (0..(dominators_call.total - 1)) :
     pn[1] \in Range(dominators_call.preds[pn[2]])}

\* The edge-split graph of compute_pst: u -> edge node -> v for every edge
\* that has an edge node.
SplitRelation ==
  UNION {{<<edges[e].u, edge_node_index[e]>>, <<edge_node_index[e], edges[e].v>>} :
           e \in DOMAIN edge_node_index}

\* A direct call of _dominators ends: it makes at most total * total + 1
\* passes, and until it has returned it can take a step.
DominatorsEnds ==
  dominators_call.total > 0 =>
    /\ dominators_call.passes <= dominators_call.total * dominators_call.total + 1
    /\ dominators_call.returned \/ ENABLED (DominatorsPass \/ DominatorsReturn)

\* The result of a direct call that has returned is exact on the reachable
\* nodes.
CallExact ==
  ExactOnReachable(CallRelation, 0..(dominators_call.total - 1), dominators_call.start,
                   dominators_call.dom)

\* The dom and postdom of compute_pst are exact on the nodes reachable from
\* super_entry, and on those that reach super_exit.
PipelineExact ==
  pc \in {"dominators", "nested", "done"} =>
    /\ ExactOnReachable(SplitRelation, DOMAIN dom, IndexOf(nodes_order, super_entry), dom)
    /\ ExactOnReachable({<<xy[2], xy[1]>> : xy \in SplitRelation}, DOMAIN postdom,
                        IndexOf(nodes_order, super_exit), postdom)

\* C21 as stated: _dominators terminates on every finite graph, and for every
\* node n reachable from start dom(n) is exactly the set of nodes on every path
\* from start to n, with dom(start) = {start}; the same for the post-dominators
\* from super_exit on the reversed relation.
C21_DominatorsAsStated ==
  /\ DominatorsEnds
  /\ dominators_call.returned => CallExact
  /\ PipelineExact

\* C21 amended: _dominators terminates on every finite graph, and on every
\* graph in which each node other than start has a predecessor (as in the
\* graphs compute_pst passes), for every node n reachable from start dom(n) is
\* exactly the set of nodes on every path from start to n, with dom(start) =
\* {start}; the same for the post-dominators from super_exit on the reversed
\* relation.
C21_DominatorsExactWhenAllHavePreds ==
  /\ DominatorsEnds
  /\ (/\ dominators_call.returned
      /\ \A n \in 0..(dominators_call.total - 1) :
           n # dominators_call.start => dominators_call.preds[n] # <<>>) => CallExact
  /\ PipelineExact

\* C21 witness: a direct call that has returned after two or more passes, on
\* a graph where each node other than start has a predecessor, some node is
\* not reachable from start, and a reachable node has it as a predecessor.
C21_Witness ==
  /\ dominators_call.returned
  /\ dominators_call.passes >= 2
  /\ \A n \in 0..(dominators_call.total - 1) :
       n # dominators_call.start => dominators_call.preds[n] # <<>>
  /\ \E pn \in CallRelation :
       /\ pn[1] \notin ReachedAvoiding(CallRelation, dominators_call.start, None)
       /\ pn[2] \in ReachedAvoiding(CallRelation, dominators_call.start, None)
       /\ pn[2] # dominators_call.start
\* List object i is as the claim describes: its size is the number of nodes
\* reachable from head via next, its tail is the last of them, and top() is
\* the edge of that node (None when there is none).
ListSound(i) ==
  LET w == Walk(blists[i])
      last == IF w = <<>> THEN None ELSE w[Len(w)]
  IN  /\ blists[i].size = Len(w)
      /\ blists[i].tail = last
      /\ top(Self(i)) = last

\* Among the lists of S: an edge that none of them holds has the handle
\* None, and deleting it from any of them changes nothing.
AbsentEdgesSound(S) ==
  \A e \in DOMAIN list_node :
    (\A j \in S : ~Holds(j, e)) =>
      /\ list_node[e] = None
      /\ \A i \in S : delete(Self(i), e) = Self(i)

\* C22 as stated: after any sequence of push, delete and _concat_blist in
\* which each edge is pushed at most once and delete is applied to the list
\* holding the edge or to an edge no list holds, each list's size is the
\* number of nodes reachable from head via next, tail is the last such node,
\* top() is the edge at tail (None when empty), a deleted edge's handle is
\* None, and deleting an edge that is in no list leaves the list unchanged.
C22_BracketListsAsStated ==
  pc = "brackets" =>
    /\ \A i \in DOMAIN blists : ListSound(i)
    /\ AbsentEdgesSound(DOMAIN blists)

\* C22 amended: the same, for each list that no _concat_blist of two
\* non-empty lists has taken as its right operand, when the operations are
\* applied to such lists only and _concat_blist to two different ones.
C22_LiveBracketListsSound ==
  pc = "brackets" =>
    /\ \A i \in Live : ListSound(i)
    /\ AbsentEdgesSound(Live)

\* C22 witness: two non-empty lists were concatenated, an edge was then
\* pushed on the result, and an edge was deleted from it, leaving two or more.
C22_Witness ==
  /\ pc = "brackets"
  /\ \E j \in consumed : blists[j].size # Len(Walk(blists[j]))
  /\ \E e \in DOMAIN bnode : list_node[e] = None
  /\ \E i \in Live : blists[i].size >= 2
====
